---- MODULE Spec2Model ----
(***************************************************************************)
(* The resumable chunked upload of SportsApp: the client's UploadProvider  *)
(* (use-upload hook: currentUpload, uploadFile, abortController, the       *)
(* localStorage record and the performUpload transfer loops) together with *)
(* the server's upload session store it talks to.                          *)
(*                                                                         *)
(* JavaScript runs one task at a time: a handler runs to its first await,  *)
(* and each continuation of performUpload runs from one await to the next. *)
(* Every such piece is one action.  abort() rejects the awaited fetch at   *)
(* once, so the continuation of an aborted loop runs as a microtask before *)
(* any other task: while one is pending no other action is enabled.        *)
(*                                                                         *)
(* A request takes effect on the server at one instant between its sending *)
(* and the end of its await: the action that ends the await also says      *)
(* whether and how the server handled the request.                         *)
(*                                                                         *)
(* The cutting of the file into chunks is checked on its own, in           *)
(* SlicingSpec, over file sizes and chunk sizes; in Spec a chunk is its    *)
(* index and the slicing run stays empty.                                  *)
(***************************************************************************)
EXTENDS Integers, FiniteSets, TLC

\* ---------------------------------------------------------------- bounds
MaxUploads == 2
MaxChunks == 2
MaxLoops == 2
MaxCancels == 1
MaxWholeChunks == 4

UploadIds == 1..MaxUploads
Loops == 1..MaxLoops

\* A controller that is not null but belongs to a transfer loop that has ended.
Dead == 0 - 1

VARIABLES
  currentUpload,     \* useState<UploadSession | null>
  uploadFile,        \* useState<File | null>: 0 is null, else the uploadId the file belongs to
  abortController,   \* useState<AbortController | null>: 0 is null, else the loop owning it
  stored,            \* localStorage[STORAGE_KEY]
  pendingRestore,    \* the session the mount effect parsed, until the re-render
  loops,             \* the performUpload calls that have not returned
  timers,            \* the pending setTimeout(clearUpload, 2000) calls
  cancels,           \* the cancelUpload calls awaiting their DELETE
  init,              \* the startPostUpload call awaiting POST /api/uploads/init
  sessions,          \* the server's upload session store
  objects,           \* per uploadId, how often the server's complete produced an object
  nextId,            \* the next uploadId the server assigns
  slicing            \* the file a transfer loop cuts into chunks, and the bytes sent

uploadVars == <<currentUpload, uploadFile, abortController, stored, pendingRestore,
                loops, timers, cancels, init, sessions, objects, nextId>>

vars == <<currentUpload, uploadFile, abortController, stored, pendingRestore,
          loops, timers, cancels, init, sessions, objects, nextId, slicing>>

\* ------------------------------------------------------------ client data
\* UploadSession; the null session is the record whose uploadId is 0.
Null ==
  [uploadId |-> 0, totalChunks |-> 0, uploadedChunks |-> 0, progress |-> 0,
   status |-> "none", error |-> "none"]

NewSession(id, total) ==
  [uploadId |-> id, totalChunks |-> total, uploadedChunks |-> 0, progress |-> 0,
   status |-> "uploading", error |-> "none"]

\* An updateUpload that merges the updates into whatever it finds
\* (setCurrentUpload(prev => ({ ...prev, ...updates })), mutation of
\* updateUpload).
updateUploadUnguarded(prev, updates) ==
  [f \in DOMAIN prev |-> IF f \in DOMAIN updates THEN updates[f] ELSE prev[f]]

\* setCurrentUpload(prev => prev ? { ...prev, ...updates } : null)
updateUpload(prev, updates) ==
  IF prev = Null THEN Null
  ELSE [f \in DOMAIN prev |-> IF f \in DOMAIN updates THEN updates[f] ELSE prev[f]]

\* The effect on [currentUpload]: setItem when there is a session, else removeItem.
Persist(old, new, rec) ==
  IF new = old THEN rec ELSE new

isUploading == currentUpload.status = "uploading"

\* One performUpload call: the request it awaits (pc), whether its controller
\* was aborted, its uploadData argument, its loop index i, and the
\* abortController its clearUpload closure holds.
Free ==
  [pc |-> "free", aborted |-> FALSE, uploadId |-> 0, totalChunks |-> 0,
   uploadedChunks |-> 0, i |-> 0, captAC |-> 0]

\* The startPostUpload call that awaits its init request, if any.
NoInit == [pending |-> FALSE, captAC |-> 0]

Live(l) == loops[l].pc # "free"

\* A continuation of an aborted loop is queued as a microtask.
MicrotaskPending == \E l \in Loops : loops[l].aborted

\* The page is mounted and idle: tasks (events, timers, network) may run.
Ready == pendingRestore = Null /\ ~MicrotaskPending

\* ------------------------------------------------------------ server data
NoRecord == [open |-> FALSE, totalChunks |-> 0, received |-> {}, totalReceived |-> 0]

\* floor(totalReceived / totalChunks * 100)
Progress(totalReceived, totalChunks) == (totalReceived * 100) \div totalChunks

\* ----------------------------------------------------------- slicing data
\* const CHUNK_SIZE = 8 * 1024 * 1024
CHUNK_SIZE == 8388608

\* The chunk sizes and, for each, the file sizes tried: around every multiple of
\* the chunk size up to MaxWholeChunks chunks.
ChunkSizes == {1, 2, 3, CHUNK_SIZE}

FileSizes(chunkSize) ==
  {n \in {k * chunkSize + d : k \in 0..MaxWholeChunks, d \in {0 - 1, 0, 1}} : n > 0}

Min(a, b) == IF a < b THEN a ELSE b

\* init computes totalChunks = ceil(fileSize / chunkSize).
TotalChunks(fileSize, chunkSize) == (fileSize + chunkSize - 1) \div chunkSize

\* A slice that starts one byte further for every chunk before it (mutation of
\* SliceStart).
SliceStartWithGap(i, chunkSize) == i * (chunkSize + 1)

\* const start = i * CHUNK_SIZE
SliceStart(i, chunkSize) == i * chunkSize

\* const end = Math.min(start + CHUNK_SIZE, file.size)
SliceEnd(i, chunkSize, fileSize) == Min(SliceStart(i, chunkSize) + chunkSize, fileSize)

\* file.slice(start, end).size: both ends are clamped to the file, and the
\* blob is empty when the end is not after the start.
SliceSize(start, end, fileSize) ==
  LET from == Min(start, fileSize)
      to == Min(end, fileSize)
  IN IF to > from THEN to - from ELSE 0

\* One run of the loop over a file: the slice last sent is [start, end), i is
\* the next index, received the bytes the server got in the PATCHes.
NoFile ==
  [fileSize |-> 0, chunkSize |-> 0, totalChunks |-> 0, i |-> 0, start |-> 0,
   end |-> 0, received |-> 0, completed |-> FALSE]

NewFile(fileSize, chunkSize) ==
  [NoFile EXCEPT !.fileSize = fileSize, !.chunkSize = chunkSize,
                 !.totalChunks = TotalChunks(fileSize, chunkSize)]

Init ==
  /\ currentUpload = Null
  /\ uploadFile = 0
  /\ abortController = 0
  /\ stored = Null
  /\ pendingRestore = Null
  /\ loops = [l \in Loops |-> Free]
  /\ timers = {}
  /\ cancels = {}
  /\ init = NoInit
  /\ sessions = [u \in UploadIds |-> NoRecord]
  /\ objects = [u \in UploadIds |-> 0]
  /\ nextId = 1
  /\ slicing = NoFile

\* ------------------------------------------------- the server's session store
\* The record's totalReceived counter.
TotalReceived(id) == sessions[id].totalReceived

ServerIdle == UNCHANGED <<sessions, objects, nextId>>

\* init(meta) accepts: a new record under a fresh uploadId.
ServerInit(total) ==
  /\ sessions' = [sessions EXCEPT ![nextId] =
       [open |-> TRUE, totalChunks |-> total, received |-> {}, totalReceived |-> 0]]
  /\ nextId' = nextId + 1
  /\ UNCHANGED objects

\* status(uploadId) answers, or fails with NotFoundError.
StatusOk(id) == sessions[id].open

\* patch(uploadId, chunkIndex, bytes) answers, or fails with NotFoundError or
\* OutOfRangeError.
PatchOk(id, idx) == sessions[id].open /\ idx < sessions[id].totalChunks

\* A patch that counts every accepted request (mutation of ServerPatch).
ServerPatchRunningSum(id, idx) ==
  /\ sessions' = IF PatchOk(id, idx)
                 THEN [sessions EXCEPT ![id].received = @ \cup {idx},
                                       ![id].totalReceived = @ + 1]
                 ELSE sessions
  /\ UNCHANGED <<objects, nextId>>

\* patch: the chunk is written to its slot, overwriting an earlier write;
\* totalReceived is recomputed as the number of distinct indices received.
ServerPatch(id, idx) ==
  /\ sessions' = IF PatchOk(id, idx)
                 THEN [sessions EXCEPT
                         ![id].received = @ \cup {idx},
                         ![id].totalReceived = Cardinality(sessions[id].received \cup {idx})]
                 ELSE sessions
  /\ UNCHANGED <<objects, nextId>>

\* complete(uploadId) hands the chunks to the finalizer, or fails with
\* NotFoundError or IncompleteError.
CompleteOk(id) ==
  sessions[id].open /\ TotalReceived(id) >= sessions[id].totalChunks

\* A complete that forgets the teardown after a stored object (mutation of
\* ServerComplete).
ServerCompleteKeepsRecord(id, storageOk) ==
  /\ sessions' = IF CompleteOk(id) /\ ~storageOk
                 THEN [sessions EXCEPT ![id] = NoRecord]
                 ELSE sessions
  /\ objects' = IF CompleteOk(id) /\ storageOk
                THEN [objects EXCEPT ![id] = @ + 1]
                ELSE objects
  /\ UNCHANGED nextId

\* A complete that keeps the record for another try when the finalizer failed
\* (mutation of ServerComplete).
ServerCompleteKeepsOnFailure(id, storageOk) ==
  /\ sessions' = IF CompleteOk(id) /\ storageOk
                 THEN [sessions EXCEPT ![id] = NoRecord]
                 ELSE sessions
  /\ objects' = IF CompleteOk(id) /\ storageOk
                THEN [objects EXCEPT ![id] = @ + 1]
                ELSE objects
  /\ UNCHANGED nextId

\* complete: the record is deleted whether the finalizer stored the object or
\* failed with a StorageError.
ServerComplete(id, storageOk) ==
  /\ sessions' = IF CompleteOk(id) THEN [sessions EXCEPT ![id] = NoRecord] ELSE sessions
  /\ objects' = IF CompleteOk(id) /\ storageOk
                THEN [objects EXCEPT ![id] = @ + 1]
                ELSE objects
  /\ UNCHANGED nextId

\* delete(uploadId): removes the record; deleting an unknown id is no error.
ServerDelete(id) ==
  /\ sessions' = [sessions EXCEPT ![id] = NoRecord]
  /\ UNCHANGED <<objects, nextId>>

\* The request loop record r awaits reaches the server.
Lands(r, storageOk) ==
  CASE r.pc = "patch" -> ServerPatch(r.uploadId, r.i)
    [] r.pc = "complete" -> ServerComplete(r.uploadId, storageOk)
    [] OTHER -> ServerIdle

\* ------------------------------------------------------- shared pieces
\* controller.abort(): the fetch the loop awaits rejects; a controller whose loop
\* has returned, or null, aborts nothing.
Abort(ls, c) ==
  IF c \in Loops /\ ls[c].pc # "free" THEN [ls EXCEPT ![c].aborted = TRUE] ELSE ls

\* The loop slot a new performUpload call takes.
FreeSlot == CHOOSE l \in Loops : ~Live(l) /\ \A k \in Loops : k < l => Live(k)

HasFreeSlot == \E l \in Loops : ~Live(l)

\* A closure that still holds the controller of a loop that returned holds a
\* controller that aborts nothing.
Scrub(c, l) == IF c = l THEN Dead ELSE c

ScrubLoops(ls, l) ==
  [k \in Loops |-> IF k = l THEN Free ELSE [ls[k] EXCEPT !.captAC = Scrub(@, l)]]

ScrubSet(S, l) == {[x EXCEPT !.captAC = Scrub(@, l)] : x \in S}

\* for (let i = startChunk; i < uploadData.totalChunks; i++): the next await is
\* the PATCH of chunk i, or the complete request once i reaches totalChunks.
EnterChunk(rec, idx) ==
  IF idx < rec.totalChunks
  THEN [rec EXCEPT !.pc = "patch", !.i = idx, !.uploadedChunks = 0]
  ELSE [rec EXCEPT !.pc = "complete", !.i = 0, !.uploadedChunks = 0]

\* performUpload(file, uploadData) up to its first await.
performUpload(uploadData, capt) ==
  LET rec == [Free EXCEPT !.uploadId = uploadData.uploadId,
                          !.totalChunks = uploadData.totalChunks,
                          !.uploadedChunks = uploadData.uploadedChunks,
                          !.captAC = capt]
  IN IF uploadData.uploadedChunks > 0
     THEN [rec EXCEPT !.pc = "status"]
     ELSE EnterChunk(rec, 0)

\* A continuation of loop l that only updates the session and awaits again.
Continue(l, updates, rec) ==
  /\ currentUpload' = updateUpload(currentUpload, updates)
  /\ stored' = Persist(currentUpload, currentUpload', stored)
  /\ loops' = [loops EXCEPT ![l] = rec]
  /\ UNCHANGED <<uploadFile, abortController, pendingRestore, timers, cancels, init>>

\* performUpload returns: the last updateUpload, then finally { setAbortController(null) }.
Return(l, updates, newTimers) ==
  /\ currentUpload' = updateUpload(currentUpload, updates)
  /\ stored' = Persist(currentUpload, currentUpload', stored)
  /\ abortController' = 0
  /\ loops' = ScrubLoops(loops, l)
  /\ timers' = ScrubSet(timers, l) \cup newTimers
  /\ cancels' = ScrubSet(cancels, l)
  /\ init' = [init EXCEPT !.captAC = Scrub(@, l)]
  /\ UNCHANGED <<uploadFile, pendingRestore>>

\* catch (error) { updateUpload({ status: 'error', error: error.message }) }
Fail(l, message) ==
  Return(l, [status |-> "error", error |-> message], {})

\* No field changes.
Nothing == [x \in {} |-> 0]

\* A clearUpload that forgets setCurrentUpload(null) and the removeItem
\* (mutation of clearUpload).
clearUploadKeepsSession(capt) ==
  /\ currentUpload' = currentUpload
  /\ uploadFile' = 0
  /\ stored' = stored
  /\ IF capt # 0
     THEN /\ loops' = Abort(loops, capt)
          /\ abortController' = 0
     ELSE UNCHANGED <<loops, abortController>>

\* clearUpload() of a closure that holds controller capt.
clearUpload(capt) ==
  /\ currentUpload' = Null
  /\ uploadFile' = 0
  /\ stored' = Null
  /\ IF capt # 0
     THEN /\ loops' = Abort(loops, capt)
          /\ abortController' = 0
     ELSE UNCHANGED <<loops, abortController>>

\* -------------------------------------------------------- the handlers
\* The caller starts an upload only when no session is active (section 3 of the
\* design: one active session per browsing context, ensured by the caller).
CallerMayStart ==
  /\ ~init.pending
  /\ currentUpload.status \in {"none", "completed", "cancelled"}

\* startPostUpload up to its await of POST /api/uploads/init.  Its performUpload,
\* and through it clearUpload, are those of the render it was called in.
StartPostUpload ==
  /\ Ready
  /\ UNCHANGED slicing
  /\ CallerMayStart
  /\ init' = [pending |-> TRUE, captAC |-> abortController]
  /\ UNCHANGED <<currentUpload, uploadFile, abortController, stored, pendingRestore,
                 loops, timers, cancels, sessions, objects, nextId>>

\* startPostUpload after an accepted init: the session is created and
\* performUpload is called.
startPostUploadSession(id, total) ==
  /\ HasFreeSlot
  /\ currentUpload' = NewSession(id, total)
  /\ uploadFile' = id
  /\ stored' = Persist(currentUpload, currentUpload', stored)
  /\ loops' = [loops EXCEPT ![FreeSlot] = performUpload(currentUpload', init.captAC)]
  /\ abortController' = FreeSlot
  /\ init' = NoInit
  /\ UNCHANGED <<pendingRestore, timers, cancels>>

\* A startPostUpload that goes on to create the session although the init was
\* rejected (mutation of InitFailed).
InitFailedStartsSession ==
  /\ Ready
  /\ UNCHANGED slicing
  /\ init.pending
  /\ nextId <= MaxUploads
  /\ ServerIdle
  /\ startPostUploadSession(nextId, 1)

InitAccepted ==
  /\ Ready
  /\ UNCHANGED slicing
  /\ init.pending
  /\ nextId <= MaxUploads
  /\ \E total \in 1..MaxChunks :
       /\ ServerInit(total)
       /\ startPostUploadSession(nextId, total)

\* The server rejects the init (ValidationError), or the request or its reply is
\* lost: apiRequest throws, and the catch shows a toast.
InitFailed ==
  /\ Ready
  /\ UNCHANGED slicing
  /\ init.pending
  /\ init' = NoInit
  /\ \/ ServerIdle
     \/ /\ nextId <= MaxUploads
        /\ \E total \in 1..MaxChunks : ServerInit(total)
  /\ UNCHANGED <<currentUpload, uploadFile, abortController, stored, pendingRestore,
                 loops, timers, cancels>>

pauseUpload ==
  /\ loops' = Abort(loops, abortController)
  /\ abortController' = 0
  /\ currentUpload' = updateUpload(currentUpload, [status |-> "paused"])
  /\ stored' = Persist(currentUpload, currentUpload', stored)
  /\ UNCHANGED <<uploadFile, pendingRestore, timers, cancels, init, sessions, objects,
                 nextId>>

PauseUpload ==
  /\ Ready
  /\ UNCHANGED slicing
  /\ pauseUpload

\* resumeUpload and retryUpload: the guard, updateUpload, then performUpload with
\* the currentUpload of the render (its uploadedChunks is the resume point).
Reenter(from, updates) ==
  IF currentUpload # Null /\ uploadFile # 0 /\ currentUpload.status = from
  THEN /\ HasFreeSlot
       /\ currentUpload' = updateUpload(currentUpload, updates)
       /\ stored' = Persist(currentUpload, currentUpload', stored)
       /\ loops' = [loops EXCEPT ![FreeSlot] = performUpload(currentUpload, abortController)]
       /\ abortController' = FreeSlot
       /\ UNCHANGED <<uploadFile, pendingRestore, timers, cancels, init, sessions,
                      objects, nextId>>
  ELSE UNCHANGED vars

resumeUpload == Reenter("paused", [status |-> "uploading"])

ResumeUpload ==
  /\ Ready
  /\ UNCHANGED slicing
  /\ resumeUpload

retryUpload == Reenter("error", [status |-> "uploading", error |-> "none"])

RetryUpload ==
  /\ Ready
  /\ UNCHANGED slicing
  /\ retryUpload

\* cancelUpload up to its await of the DELETE request.  mid notes whether a
\* chunk PATCH of the session was in flight at the call.
cancelUpload ==
  IF currentUpload = Null
  THEN UNCHANGED vars
  ELSE /\ Cardinality(cancels) < MaxCancels
       /\ loops' = Abort(loops, abortController)
       /\ cancels' = cancels \cup
            {[uploadId |-> currentUpload.uploadId, captAC |-> abortController,
              mid |-> \E l \in Loops : /\ loops[l].pc = "patch"
                                       /\ loops[l].uploadId = currentUpload.uploadId]}
       /\ UNCHANGED <<currentUpload, uploadFile, abortController, stored,
                      pendingRestore, timers, init, sessions, objects, nextId>>

CancelUpload ==
  /\ Ready
  /\ UNCHANGED slicing
  /\ cancelUpload

\* cancelUpload after the await: the DELETE was answered, or it failed and the
\* catch logged it; either way clearUpload() of the call's render runs.
cancelUploadFinish(c) ==
  /\ clearUpload(c.captAC)
  /\ cancels' = cancels \ {c}
  /\ UNCHANGED <<pendingRestore, timers, init>>

CancelFinish ==
  /\ Ready
  /\ UNCHANGED slicing
  /\ \E c \in cancels :
       /\ ServerDelete(c.uploadId) \/ ServerIdle
       /\ cancelUploadFinish(c)

\* setTimeout(() => clearUpload(), 2000) fires.
TimerFires ==
  /\ Ready
  /\ UNCHANGED slicing
  /\ \E t \in timers :
       /\ clearUpload(t.captAC)
       /\ timers' = timers \ {t}
       /\ UNCHANGED <<pendingRestore, cancels, init, sessions, objects, nextId>>

\* ------------------------------------------- performUpload's continuations
\* The reply of GET /status arrives.  An ok reply is adopted as the resume point;
\* any other reply leaves startChunk at uploadData.uploadedChunks.
StatusReply(l) ==
  LET r == loops[l] IN
  /\ r.pc = "status"
  /\ ServerIdle
  /\ IF StatusOk(r.uploadId)
     THEN Continue(l, [uploadedChunks |-> TotalReceived(r.uploadId),
                       progress |-> Progress(TotalReceived(r.uploadId), r.totalChunks)],
                   EnterChunk(r, TotalReceived(r.uploadId)))
     ELSE Continue(l, Nothing, EnterChunk(r, r.uploadedChunks))

\* A loop that goes on to the next chunk whatever the reply to the PATCH
\* (mutation of ChunkReply).
ChunkReplyIgnoresRefusal(l) ==
  LET r == loops[l] IN
  /\ r.pc = "patch"
  /\ ServerPatch(r.uploadId, r.i)
  /\ Continue(l, [status |-> "uploading"], EnterChunk(r, r.i + 1))

\* The reply of a chunk PATCH arrives: uploadChunk returns the server's
\* {totalReceived, progress}, or throws on a reply that is not ok.
ChunkReply(l) ==
  LET r == loops[l] IN
  /\ r.pc = "patch"
  /\ ServerPatch(r.uploadId, r.i)
  /\ IF PatchOk(r.uploadId, r.i)
     THEN LET totalReceived == sessions'[r.uploadId].totalReceived IN
          Continue(l, [uploadedChunks |-> totalReceived,
                       progress |-> Progress(totalReceived, r.totalChunks),
                       status |-> "uploading"],
                   EnterChunk(r, r.i + 1))
     ELSE Fail(l, "Chunk upload failed")

\* The reply of POST /complete arrives.
CompleteReply(l) ==
  LET r == loops[l] IN
  /\ r.pc = "complete"
  /\ \E storageOk \in BOOLEAN :
       /\ ServerComplete(r.uploadId, storageOk)
       /\ IF CompleteOk(r.uploadId) /\ storageOk
          THEN Return(l, [status |-> "completed", progress |-> 100],
                      {[uploadId |-> r.uploadId, captAC |-> r.captAC]})
          ELSE Fail(l, "Upload completion failed")

\* The awaited fetch rejects because the request, or the reply to it, was lost.
NetworkError(l) ==
  LET r == loops[l] IN
  /\ r.pc # "free"
  /\ ServerIdle \/ \E storageOk \in BOOLEAN : Lands(r, storageOk)
  /\ IF r.pc = "status"
     THEN Continue(l, Nothing, EnterChunk(r, r.uploadedChunks))
     ELSE Fail(l, "Failed to fetch")

\* The awaited fetch rejects because the loop's controller was aborted; the
\* request may have reached the server all the same.
\*  - in the status request: the inner catch only warns; then the loop's first
\*    test throws "Upload cancelled", or with no chunk left the complete fetch
\*    rejects on the aborted signal;
\*  - in a chunk PATCH: the abort branch sets 'cancelled' and returns;
\*  - in the complete request: the outer catch.
Aborted(l) ==
  LET r == loops[l] IN
  /\ r.aborted
  /\ ServerIdle \/ \E storageOk \in BOOLEAN : Lands(r, storageOk)
  /\ CASE r.pc = "status" ->
            IF r.uploadedChunks < r.totalChunks
            THEN Fail(l, "Upload cancelled")
            ELSE Fail(l, "AbortError")
       [] r.pc = "patch" -> Return(l, [status |-> "cancelled"], {})
       [] OTHER -> Fail(l, "AbortError")

StatusReplies == Ready /\ UNCHANGED slicing /\ \E l \in Loops : StatusReply(l)

ChunkReplies == Ready /\ UNCHANGED slicing /\ \E l \in Loops : ChunkReply(l)

CompleteReplies == Ready /\ UNCHANGED slicing /\ \E l \in Loops : CompleteReply(l)

NetworkErrors == Ready /\ UNCHANGED slicing /\ \E l \in Loops : NetworkError(l)

AbortedLoops == pendingRestore = Null /\ UNCHANGED slicing /\ \E l \in Loops : Aborted(l)

\* ------------------------------------------------------------ page reload
\* A record in localStorage that is not the JSON text of a session.
Corrupt == [Null EXCEPT !.status = "corrupt"]

\* A restore effect that hands on whatever it read (mutation of Parse).
ParseAnything(text) == text

\* JSON.parse of the record in the restore effect: the session it was written
\* from, or, when it throws, no session (the catch removes the record).
Parse(text) == IF text = Corrupt THEN Null ELSE text

\* Something other than the provider damages the record (localStorage is shared
\* by the origin's pages and scripts).  Taken at the points where the page is
\* idle: what matters is the record the next mount finds.
CorruptRecord ==
  /\ Ready
  /\ UNCHANGED slicing
  /\ \A l \in Loops : ~Live(l)
  /\ timers = {} /\ cancels = {} /\ ~init.pending
  /\ stored # Null
  /\ stored # Corrupt
  /\ stored' = Corrupt
  /\ UNCHANGED <<currentUpload, uploadFile, abortController, pendingRestore, loops,
                 timers, cancels, init, sessions, objects, nextId>>

\* The page is reloaded: every loop, timer and pending handler is gone; one of
\* the requests in flight may still reach the server.  On mount the first
\* effect parses the stored record and queues setCurrentUpload(session); the
\* second effect runs in the same commit with currentUpload still null and
\* removes the record.
Reload ==
  /\ ~MicrotaskPending
  /\ UNCHANGED slicing
  /\ currentUpload' = Null
  /\ uploadFile' = 0
  /\ abortController' = 0
  /\ loops' = [l \in Loops |-> Free]
  /\ timers' = {}
  /\ cancels' = {}
  /\ init' = NoInit
  /\ pendingRestore' = Parse(stored)
  /\ stored' = Null
  /\ \/ ServerIdle
     \/ \E l \in Loops, storageOk \in BOOLEAN : Lands(loops[l], storageOk)
     \/ \E c \in cancels : ServerDelete(c.uploadId)

\* The re-render with the restored session; the second effect writes it back.
Restore ==
  /\ pendingRestore # Null
  /\ UNCHANGED slicing
  /\ currentUpload' = pendingRestore
  /\ stored' = Persist(currentUpload, currentUpload', stored)
  /\ pendingRestore' = Null
  /\ UNCHANGED <<uploadFile, abortController, loops, timers, cancels, init, sessions,
                 objects, nextId>>

Next ==
  \/ StartPostUpload
  \/ InitAccepted
  \/ InitFailed
  \/ PauseUpload
  \/ ResumeUpload
  \/ RetryUpload
  \/ CancelUpload
  \/ CancelFinish
  \/ TimerFires
  \/ StatusReplies
  \/ ChunkReplies
  \/ CompleteReplies
  \/ NetworkErrors
  \/ AbortedLoops
  \/ Reload
  \/ Restore
  \/ CorruptRecord

Spec == Init /\ [][Next]_vars

\* ---------------------------------------------------- slicing on its own
\* The slicing of performUpload's loop, run for every file size and chunk size
\* tried, every PATCH and the complete request being answered ok.
SlicingInit ==
  /\ currentUpload = Null
  /\ uploadFile = 0
  /\ abortController = 0
  /\ stored = Null
  /\ pendingRestore = Null
  /\ loops = [l \in Loops |-> Free]
  /\ timers = {}
  /\ cancels = {}
  /\ init = NoInit
  /\ sessions = [u \in UploadIds |-> NoRecord]
  /\ objects = [u \in UploadIds |-> 0]
  /\ nextId = 1
  /\ \E chunkSize \in ChunkSizes :
       \E fileSize \in FileSizes(chunkSize) : slicing = NewFile(fileSize, chunkSize)

\* One pass of the for loop: chunk i is cut and sent, the server takes its bytes.
SendSlice ==
  /\ slicing.i < slicing.totalChunks
  /\ LET start == SliceStart(slicing.i, slicing.chunkSize)
         end == SliceEnd(slicing.i, slicing.chunkSize, slicing.fileSize)
     IN slicing' = [slicing EXCEPT
                      !.start = start,
                      !.end = end,
                      !.received = @ + SliceSize(start, end, slicing.fileSize),
                      !.i = @ + 1]
  /\ UNCHANGED uploadVars

\* The loop is left: the complete request succeeds.
SlicesComplete ==
  /\ slicing.i = slicing.totalChunks
  /\ ~slicing.completed
  /\ slicing' = [slicing EXCEPT !.completed = TRUE]
  /\ UNCHANGED uploadVars

SlicingNext ==
  \/ SendSlice
  \/ SlicesComplete

SlicingSpec == SlicingInit /\ [][SlicingNext]_vars

\* ---------------------------------------------------------------- claims
\* The steps of the handlers, told from what they change.
\* cancelUpload call c runs its continuation (not a reload, which drops it).
CancelFinished(c) ==
  /\ c \in cancels
  /\ c \notin cancels'
  /\ \A l \in Loops : Live(l) => loops'[l].pc # "free"
  /\ timers' = timers
  /\ init' = init
  /\ pendingRestore' = pendingRestore

\* C1: when pauseUpload is called while a chunk PATCH is in flight, the status
\* becomes 'paused', uploadedChunks keeps its value, and the status stays
\* 'paused' until resumeUpload or cancelUpload is called.  Stated on the step
\* that follows the pause: the reaction of the aborted PATCH.
C1_PauseStaysPaused ==
  [][(/\ currentUpload.status = "paused"
      /\ \E l \in Loops : loops[l].aborted /\ loops[l].pc = "patch")
     => /\ currentUpload'.status = "paused"
        /\ currentUpload'.uploadedChunks = currentUpload.uploadedChunks]_vars

\* C2: cancellation is never treated as an error: when the abort signal is what
\* ends the loop, at whichever request it was suspended, the session does not
\* take status 'error' and its error field is not set.
C2_AbortIsNoError ==
  [][(\E l \in Loops : loops[l].aborted)
     => /\ currentUpload'.status = "error" => currentUpload.status = "error"
        /\ currentUpload'.error = currentUpload.error]_vars

\* C3: whenever the client has a complete request in flight for an upload, the
\* server's record of that upload holds every chunk index 0..totalChunks-1.
C3_CompleteOnlyWhenAllReceived ==
  \A l \in Loops :
    (loops[l].pc = "complete" /\ sessions[loops[l].uploadId].open)
      => sessions[loops[l].uploadId].received = 0..(loops[l].totalChunks - 1)

\* C4: at most one chunk PATCH of a session is in flight at any time.
C4_OnePatchInFlight ==
  \A a, b \in Loops :
    (/\ loops[a].pc = "patch"
     /\ loops[b].pc = "patch"
     /\ loops[a].uploadId = loops[b].uploadId)
      => a = b

\* C5: for every uploadId the server's complete produces a finished object at
\* most once.
C5_ObjectAtMostOnce == \A u \in UploadIds : objects[u] <= 1

\* C5 witness: a complete request is in flight again for an upload whose object
\* was already produced (the reply was lost and the client re-entered the loop).
C5_Witness ==
  \E l \in Loops : loops[l].pc = "complete" /\ objects[loops[l].uploadId] = 1

\* C6: cancelling while chunks are being transferred leaves no completed object
\* for that uploadId and no record of it in the server's session store.
C6_CancelLeavesNothing ==
  [][\A c \in cancels :
       (c.mid /\ CancelFinished(c))
         => /\ objects'[c.uploadId] = 0
            /\ ~sessions'[c.uploadId].open]_vars

\* C7: cancelUpload always ends with the local session cleared and the durable
\* record removed, whether the DELETE succeeded or failed; a failed DELETE does
\* not put the session in status 'error'.
C7_CancelClears ==
  [][\A c \in cancels :
       CancelFinished(c)
         => /\ currentUpload' = Null
            /\ stored' = Null
            /\ uploadFile' = 0]_vars

\* C7 witness: cancelUpload awaits its DELETE while the session it cancels is
\* still the current one and still on the server.
C7_Witness ==
  \E c \in cancels :
    /\ currentUpload.uploadId = c.uploadId
    /\ stored = currentUpload
    /\ sessions[c.uploadId].open

\* C8: a failure sets status 'error' and stops the loop: while the session is
\* in status 'error' no request of a transfer loop is in flight for it.
C8_ErrorStopsRequests ==
  currentUpload.status = "error"
    => \A l \in Loops : loops[l].uploadId # currentUpload.uploadId

\* C9: retryUpload has an effect whenever the status is 'error': it re-enters
\* the transfer loop.
C9_RetryWhenError ==
  (Ready /\ HasFreeSlot /\ currentUpload.status = "error")
    => ENABLED <<RetryUpload>>_vars

\* C10: resumeUpload called in status 'paused' re-enters the transfer loop.
C10_ResumeWhenPaused ==
  (Ready /\ HasFreeSlot /\ currentUpload.status = "paused")
    => ENABLED <<ResumeUpload>>_vars

\* A session that came back from localStorage after a reload: the File object
\* is not restored with it.
Restored == currentUpload # Null /\ uploadFile = 0

\* C11: the session survives a page reload: a restored session with
\* uploadedChunks < totalChunks can be resumed (its transfer loop is running, or
\* resumeUpload or retryUpload can start it), so that it can go on to
\* 'completed'.
C11_RestoredCanResume ==
  (/\ Ready
   /\ HasFreeSlot
   /\ Restored
   /\ currentUpload.status \in {"uploading", "paused", "error"}
   /\ currentUpload.uploadedChunks < currentUpload.totalChunks)
    => \/ \E l \in Loops : loops[l].uploadId = currentUpload.uploadId
       \/ ENABLED <<ResumeUpload>>_vars
       \/ ENABLED <<RetryUpload>>_vars

\* The session the client holds in memory: the React state, or on mount the
\* parsed record that setCurrentUpload was called with.
InMemorySession == IF pendingRestore # Null THEN pendingRestore ELSE currentUpload

\* C12: at every point where a reload can occur the durable record equals the
\* in-memory session (so also its uploadedChunks), and the record is absent
\* exactly when there is no session.
C12_RecordEqualsSession == ~MicrotaskPending => stored = InMemorySession

\* C13: an upload paused once after k acknowledged chunks (0 < k < totalChunks)
\* and later resumed completes.  Stated on the step that follows the pause (the
\* reaction of the aborted PATCH): it leaves the session such that resumeUpload
\* re-enters the loop, that is, with the file and in status 'paused'.
C13_PausedOnceCanResume ==
  [][(/\ currentUpload.status = "paused"
      /\ 0 < currentUpload.uploadedChunks
      /\ currentUpload.uploadedChunks < currentUpload.totalChunks
      /\ \E l \in Loops : /\ loops[l].aborted
                          /\ loops[l].pc = "patch"
                          /\ loops[l].uploadId = currentUpload.uploadId)
     => /\ currentUpload' # Null
        /\ uploadFile' # 0
        /\ currentUpload'.status = "paused"]_vars

\* C14: the session status is 'completed' only if the server's complete
\* succeeded for that uploadId, and then progress is 100.
C14_CompletedMeansObject ==
  currentUpload.status = "completed"
    => /\ objects[currentUpload.uploadId] >= 1
       /\ currentUpload.progress = 100

\* C15: after the session reaches status 'completed' it is eventually cleared:
\* while a session has status 'completed', the clear of the grace period is
\* scheduled.
C15_CompletedWillBeCleared ==
  (pendingRestore = Null /\ currentUpload.status = "completed") => timers # {}

\* The step in which a pending startPostUpload learns that the server created
\* no session (not a reload, which drops the call).
InitRejected ==
  /\ init.pending
  /\ ~init'.pending
  /\ nextId' = nextId
  /\ sessions' = sessions
  /\ ~Reload

\* C16: if the server rejects the init, startPostUpload creates no local
\* session, writes no durable record and starts no transfer loop: the client's
\* state is unchanged.
C16_InitRejectedChangesNothing ==
  [][InitRejected
     => UNCHANGED <<currentUpload, uploadFile, abortController, stored, loops>>]_vars

\* C16 witness: startPostUpload awaits its init while the completed session of
\* an earlier upload and its grace-period timer are still there.
C16_Witness ==
  init.pending /\ currentUpload.status = "completed" /\ timers # {}

\* C17: within a single session uploadedChunks and progress never decrease and
\* progress never exceeds 100.
C17_ProgressMonotone ==
  [][(currentUpload # Null /\ currentUpload'.uploadId = currentUpload.uploadId)
     => /\ currentUpload'.uploadedChunks >= currentUpload.uploadedChunks
        /\ currentUpload'.progress >= currentUpload.progress
        /\ currentUpload'.progress <= 100]_vars

\* C18: the session's error field is present only when its status is 'error'.
C18_ErrorOnlyInStatusError ==
  currentUpload.error # "none" => currentUpload.status = "error"

\* C19: if the record cannot be deserialized at start-up it is removed and no
\* session is restored; if the record is missing no session is restored.  Stated
\* on the reload that finds such a record: afterwards the record is absent,
\* currentUpload is null and no restore is pending.
C19_CorruptRecordDiscarded ==
  [][((stored = Corrupt \/ stored = Null) /\ Reload)
     => /\ stored' = Null
        /\ pendingRestore' = Null
        /\ currentUpload' = Null]_vars

\* C19 witness: the record of a live session has been damaged; the next reload
\* finds it.
C19_Witness == stored = Corrupt /\ currentUpload # Null /\ ENABLED Reload

\* C20: the server's patch is idempotent per chunk index: in every record
\* totalReceived equals the number of distinct chunk indices received, whatever
\* the order and the number of resends.
C20_TotalReceivedCountsDistinct ==
  \A u \in UploadIds : sessions[u].totalReceived = Cardinality(sessions[u].received)

\* C20 witness: a PATCH is in flight for an index the server has already
\* received (a resend), after one chunk was counted.
C20_Witness ==
  \E l \in Loops :
    /\ loops[l].pc = "patch"
    /\ sessions[loops[l].uploadId].open
    /\ loops[l].i \in sessions[loops[l].uploadId].received
    /\ sessions[loops[l].uploadId].totalReceived >= 1

\* The reply of a complete request tells loop l that the finalizer failed: the
\* record held every chunk, and the loop ends in its outer catch.
FinalizationFailed(l) ==
  /\ loops[l].pc = "complete"
  /\ loops'[l].pc = "free"
  /\ CompleteOk(loops[l].uploadId)
  /\ currentUpload'.status = "error"
  /\ currentUpload'.error = "Upload completion failed"

\* An uploadId the server assigned whose record is gone.
TornDown(u) == u < nextId /\ ~sessions[u].open

\* C21: after complete has handed the chunks to the finalizer the record no
\* longer exists, whether the object was stored or the finalizer failed; a
\* record that is gone stays gone, so every later patch, status or complete for
\* that uploadId is refused and no retry produces an object for it.
C21_CompleteEndsSession ==
  [][\A u \in UploadIds :
       /\ objects'[u] > objects[u] => ~sessions'[u].open
       /\ (\E l \in Loops : loops[l].uploadId = u /\ FinalizationFailed(l))
            => ~sessions'[u].open /\ objects'[u] = objects[u]
       /\ TornDown(u)
            => /\ ~sessions'[u].open
               /\ objects'[u] = objects[u]
               /\ ~StatusOk(u)
               /\ ~CompleteOk(u)
               /\ \A idx \in 0..(MaxChunks - 1) : ~PatchOk(u, idx)]_vars

\* C21 witness: the finalizer failed for the current upload (no object, no
\* record, status 'error' with the completion message) and retryUpload can be
\* called, the file being still held.
C21_Witness ==
  /\ currentUpload.status = "error"
  /\ currentUpload.error = "Upload completion failed"
  /\ currentUpload.uploadedChunks = currentUpload.totalChunks
  /\ uploadFile = currentUpload.uploadId
  /\ TornDown(currentUpload.uploadId)
  /\ objects[currentUpload.uploadId] = 0

\* C22: within one run of the transfer loop the chunks are sent in ascending,
\* contiguous order up to totalChunks-1, and chunk i+1 is sent only after the
\* server acknowledged chunk i: a loop leaves the PATCH of chunk i for another
\* request only if the server accepted chunk i, and then for the PATCH of i+1,
\* or for the complete request when i was the last index; a run that starts
\* without a status request starts at chunk 0, and no run sends a chunk after
\* its complete request.
C22_AscendingAfterAck ==
  [][\A l \in Loops :
       LET r == loops[l]
           n == loops'[l]
       IN /\ (/\ r.pc = "patch"
              /\ n.pc \in {"patch", "complete"}
              /\ ~(n.pc = "patch" /\ n.i = r.i))
               => /\ PatchOk(r.uploadId, r.i)
                  /\ r.i \in sessions'[r.uploadId].received
                  /\ n.uploadId = r.uploadId
                  /\ IF r.i + 1 < r.totalChunks
                     THEN n.pc = "patch" /\ n.i = r.i + 1
                     ELSE n.pc = "complete"
          /\ (r.pc = "free" /\ n.pc = "patch") => n.i = 0
          /\ n.pc = "patch" => n.i < n.totalChunks
          /\ r.pc = "complete" => n.pc # "patch"]_vars

\* C22 witness: a run that started at chunk 0 sends chunk 1, chunk 0 being on
\* the server.
C22_Witness ==
  \E l \in Loops :
    /\ loops[l].pc = "patch"
    /\ loops[l].i = 1
    /\ currentUpload.uploadId = loops[l].uploadId
    /\ currentUpload.status = "uploading"
    /\ sessions[loops[l].uploadId].received = {0}

\* C23: a loop entered with uploadedChunks > 0 transmits first the chunk whose
\* index is the server's totalReceived for the session at that time: the loop
\* leaves its status request only with the server's answer, for the PATCH of
\* chunk totalReceived, or for the complete request when nothing is missing.
C23_ResumeAtServerCount ==
  [][\A l \in Loops :
       LET r == loops[l]
           n == loops'[l]
       IN (r.pc = "status" /\ n.pc \in {"patch", "complete"})
            => /\ StatusOk(r.uploadId)
               /\ n.pc = "patch" => n.i = TotalReceived(r.uploadId)
               /\ n.pc = "complete" => TotalReceived(r.uploadId) >= r.totalChunks]_vars

\* C24: in every client state that holds a session, progress equals
\* floor(uploadedChunks / totalChunks * 100) for that session's own
\* uploadedChunks and totalChunks.
C24_ProgressFromChunks ==
  currentUpload # Null
    => currentUpload.progress =
         Progress(currentUpload.uploadedChunks, currentUpload.totalChunks)

\* C25: for every fileSize > 0 with totalChunks = ceil(fileSize / chunkSize)
\* the byte ranges [i*chunkSize, min((i+1)*chunkSize, fileSize)) of the chunks
\* 0..totalChunks-1 are non-empty, contiguous and disjoint (each starts where
\* the one before ended, the first at 0), and their lengths sum to fileSize:
\* when complete succeeds the server has received fileSize bytes.
C25_SlicesCoverFile ==
  [][/\ slicing'.i = slicing.i + 1
        => /\ slicing'.start = slicing.end
           /\ slicing'.end > slicing'.start
           /\ slicing'.end <= slicing.fileSize
           /\ slicing'.received = slicing'.end
     /\ (slicing'.completed /\ ~slicing.completed)
        => /\ slicing.i = slicing.totalChunks
           /\ slicing.end = slicing.fileSize
           /\ slicing.received = slicing.fileSize]_vars

\* C25 witness: a file of two whole chunks of 8 MiB and one byte has been sent
\* in three slices and completed.
C25_Witness ==
  /\ slicing.completed
  /\ slicing.chunkSize = CHUNK_SIZE
  /\ slicing.fileSize = 2 * CHUNK_SIZE + 1
  /\ slicing.i = 3

\* The step in which the grace-period timer t fires (not a reload, which
\* drops it).
TimerFired(t) ==
  /\ t \in timers
  /\ timers' = timers \ {t}
  /\ ~Reload

\* C26: the grace-period clear removes only the completed session it was
\* scheduled for: when the timer fires while a session of another upload,
\* started in the meantime, is the current one, that session and its durable
\* record are still there afterwards.
C26_ClearOnlyCompleted ==
  [][\A t \in timers :
       (/\ TimerFired(t)
        /\ currentUpload # Null
        /\ currentUpload.uploadId # t.uploadId)
         => /\ currentUpload' = currentUpload
            /\ stored' = stored]_vars

\* C27: once the local session has been cleared, no late event of an earlier
\* transfer loop (an acknowledgment, an abort or a failure) re-creates an
\* in-memory session or a durable record: from a state without session and
\* record, a step leaves both absent unless it is startPostUpload creating the
\* session of a newly assigned uploadId.
C27_ClearedStaysCleared ==
  [][(currentUpload = Null /\ stored = Null /\ pendingRestore = Null)
       => \/ currentUpload' = Null /\ stored' = Null
          \/ /\ init.pending
             /\ currentUpload'.uploadId = nextId
             /\ currentUpload' = NewSession(nextId, currentUpload'.totalChunks)
             /\ stored' = currentUpload']_vars

\* C27 witness: the session was cleared while a transfer loop of it still
\* awaits the reply to a PATCH that the server will accept.
C27_Witness ==
  /\ currentUpload = Null
  /\ stored = Null
  /\ pendingRestore = Null
  /\ \E l \in Loops : /\ loops[l].pc = "patch"
                        /\ PatchOk(loops[l].uploadId, loops[l].i)

\* C28: whenever the session status is 'uploading', a transfer loop for that
\* session is running; there is no state, also not after a reload restored the
\* session, with status 'uploading', no loop, and neither resumeUpload nor
\* retryUpload able to start one.
C28_UploadingHasLoop ==
  (pendingRestore = Null /\ isUploading)
    => \/ \E l \in Loops : Live(l) /\ loops[l].uploadId = currentUpload.uploadId
       \/ ENABLED <<ResumeUpload>>_vars
       \/ ENABLED <<RetryUpload>>_vars

\* C29: whenever a transfer loop is running (awaiting a request, its controller
\* not aborted), the abortController the provider holds is the controller of
\* that loop, so that pauseUpload and cancelUpload abort it; the return of an
\* earlier loop does not take it away.
C29_ControllerOfRunningLoop ==
  \A l \in Loops : (Live(l) /\ ~loops[l].aborted) => abortController = l

\* The step in which transfer loop l goes on after the request it awaited (not
\* a reload, which drops the loop).
LoopContinued(l) ==
  /\ Live(l)
  /\ loops'[l].pc # loops[l].pc \/ loops'[l].i # loops[l].i
  /\ ~Reload

\* C30: the state updates of a transfer loop apply only to the session the loop
\* was started for: when a loop of uploadId A handles an acknowledgment, an
\* abort or a failure while a session with another uploadId is the current one,
\* that session (its uploadedChunks, progress, status and error) is unchanged.
C30_UpdatesOwnSessionOnly ==
  [][\A l \in Loops :
       (/\ LoopContinued(l)
        /\ currentUpload # Null
        /\ currentUpload.uploadId # loops[l].uploadId)
         => currentUpload' = currentUpload]_vars
====
